---- MODULE Spec2Model ----
(***************************************************************************)
(* A model of coro-first-io: the intrusive work queue and io_context of    *)
(* bench.hpp, the frame_pool, promise_allocator and root_task of           *)
(* bench_co_detail.hpp and the op_cache of bench_cb.hpp.                   *)
(*                                                                         *)
(* Every component has its own group of variables and its own              *)
(* specification (SpecQueue, SpecRun, ...); a specification leaves the     *)
(* variables of the other components unchanged.                            *)
(***************************************************************************)
EXTENDS Integers, Sequences, FiniteSets, TLC

\* nullptr.  Work items, frames and blocks are named by positive integers.
NULL == 0

\* Number of distinct work objects of the queue / io_context models.
MaxWork == 4
\* Largest number of items one executing work item posts.
MaxPosts == 2
\* Largest number of io_context::run calls.
MaxRuns == 2
\* Number of root_task coroutines (frame f's starter is work object f).
MaxFrames == 2
\* Number of statements of a root_task body.
BodyLen == 2
\* Threads that use the frame_pool.
MaxThreads == 2
\* Blocks the general allocator can hand to the frame_pool.
MaxBlocks == 2
\* Largest request size, in bytes.
MaxReq == 2
\* sizeof(frame_pool::block): a pointer and a size_t.
BlockHdr == 16
\* sizeof(promise_allocator::header): a function pointer and a void*.
HdrSize == 16
\* Operation blocks the general allocator can have outstanding at a time.
MaxOps == 3
\* Largest number of work_queue::push calls when items are pushed again.
MaxPushes == 4

Work == 1..MaxWork
Frames == 1..MaxFrames
Threads == 1..MaxThreads
ReqSizes == 1..MaxReq
\* The frame sizes of calls that come in numbers: the smallest and the
\* largest request.
RunSizes == {1, MaxReq}
\* The addresses ::operator new returns for the pool's blocks: block k
\* lies at k * PoolStride, and blocks do not overlap.
PoolStride == 2 * BlockHdr + MaxReq + 1
PoolAddrs == {k * PoolStride : k \in 1..MaxBlocks}
\* The addresses the caller-supplied allocators hand out, all drawn from
\* one heap; they lie behind the pool's blocks.
CustomAddrs == {k * PoolStride : k \in (MaxBlocks + 1)..(2 * MaxBlocks)}
\* The allocator instances a frame can come from: frame_pool::shared()
\* and the caller-supplied ones.
SharedPool == [kind |-> "frame_pool", id |-> 0]
Customs == {[kind |-> "custom", id |-> k] : k \in {1, 2}}

VARIABLES
    q_,         \* io_context::q_ : [head_, tail_] and the next_ field of every work object
    inRun,      \* TRUE while io_context::run is on the stack
    runNo,      \* number of run() calls entered so far
    pushLog,    \* ghost: the items pushed, in push order
    popLog,     \* ghost: the non-null results of pop, in order
    lastPop,    \* ghost: the last pop: [ret, held] (held: items queued before it)
    postedIn,   \* ghost: item -> run() call during which it was posted (0: outside run, -1: not posted)
    execLog,    \* ghost: the executions: [w, inRun, run]
    ioOp,       \* ghost: the last io_context operation
    crashed,    \* the process has aborted (an outcome of undefined behaviour)
    frame,      \* coroutine frame of each root_task: [st, stmts]
    owner,      \* the root_task object of each frame: "none", "alive", "gone"
    h_,         \* root_task::h_ of each owner: the frame, or NULL
    destroyLog, \* ghost: the coroutine_handle::destroy calls on each frame
    resumeLog,  \* ghost: the coroutine_handle::resume calls on each frame
    token,      \* ghost: what final_suspend's await_suspend returned for each frame
    pool,       \* frame_pool: [mem, local, global]: block headers, local().head per thread, global().head
    made,       \* number of blocks obtained from ::operator new so far
    held,       \* the blocks in flight: [p, n], the pointer allocate returned and the size asked for
    lastFreed,  \* ghost: the last deallocate, [t, n]: thread and the size the block was allocated for; t = 0 once that thread allocates
    adopted,    \* ghost: the blocks allocate has taken from the global list
    hdr,        \* memory: the promise_allocator::header written at each raw address
    custom,     \* per caller-supplied allocator: its outstanding allocations [p, n]
    frames,     \* the live coroutine frames: [ptr, size] and, ghost, [alloc, raw]
    ptr_,       \* op_cache::ptr_ of the calling thread's cache
    size_,      \* op_cache::size_ of the calling thread's cache
    heap,       \* the blocks ::operator new has returned and ::operator delete has not: [p, cap]
    opLive,     \* the blocks op_cache::allocate has handed out: [p, n]
    hist,       \* ghost: the last op_cache calls, at most three, each with the slot before it
    dispatchLog, \* ghost: the executor::dispatch calls, each with the queue around it
    linked,     \* ghost: the pushed-but-not-popped items, in push order
    gone,       \* ~work_queue has run
    deleted,    \* ghost: the items ~work_queue deleted, in order
    opHandler,  \* io_op::handler_ of the io_op in each operation block
    stats,      \* ghost: counters of the callback operation that was started last
    runStat,    \* ghost: the allocations of the current run of the coroutine benchmark
    tpc,        \* per thread: where it is inside frame_pool::allocate or deallocate: [pc, n, b]
    flight      \* ghost: per block, the allocate calls that returned it and whose deallocate has not finished

qvars == <<q_, inRun, runNo, pushLog, popLog, lastPop, postedIn, execLog, ioOp>>
rvars == <<crashed, frame, owner, h_, destroyLog, resumeLog, token>>
pvars == <<pool, made, held, lastFreed, adopted>>

avars == <<hdr, custom, frames>>

cvars == <<ptr_, size_, heap, opLive, hist>>

dvars == <<dispatchLog>>

wvars == <<linked, gone, deleted>>

hvars == <<opHandler, stats>>

uvars == <<runStat>>

mvars == <<tpc, flight>>

vars == <<qvars, rvars, pvars, avars, cvars, dvars, wvars, hvars, uvars, mvars>>

\* What the actions of one component leave unchanged of the others.
notQueue == <<rvars, pvars, avars, cvars, dvars, wvars, hvars, uvars, mvars>>
notRoot == <<pvars, avars, cvars, dvars, wvars, hvars, uvars, mvars>>
notPool == <<qvars, rvars, avars, cvars, dvars, wvars, hvars, uvars, mvars>>
notAlloc == <<qvars, rvars, cvars, dvars, wvars, hvars, uvars, mvars>>
notCache == <<qvars, rvars, pvars, avars, dvars, wvars, hvars, uvars, mvars>>
notDispatch == <<rvars, pvars, avars, cvars, wvars, hvars, uvars, mvars>>
notRequeue == <<rvars, pvars, avars, cvars, dvars, hvars, uvars, mvars>>
notChain == <<rvars, pvars, avars, dvars, wvars, uvars, mvars>>
notRuns == <<qvars, rvars, avars, cvars, dvars, wvars, hvars, mvars>>
notThreads == <<qvars, rvars, avars, cvars, dvars, wvars, hvars, uvars>>

-----------------------------------------------------------------------------
(* work_queue, bench.hpp:62-104 *)

\* bool empty() const noexcept { return head_ == nullptr; }
empty(q) == q.head_ = NULL

\* A faulty variant of push: the new item goes in front of the list.
push_lifo(q, p) ==
    IF q.tail_ # NULL
    THEN [q EXCEPT !.next_[p] = q.head_, !.head_ = p]
    ELSE [q EXCEPT !.head_ = p, !.tail_ = p]

\* void push(work* p): p->next_ is not written.
push(q, p) ==
    IF q.tail_ # NULL
    THEN [q EXCEPT !.next_[q.tail_] = p, !.tail_ = p]
    ELSE [q EXCEPT !.head_ = p, !.tail_ = p]

\* work* pop(): the new queue and the returned pointer.
pop(q) ==
    IF q.head_ # NULL
    THEN LET p == q.head_
             h == q.next_[p]
         IN  [q   |-> [q EXCEPT !.head_ = h,
                                !.tail_ = IF h = NULL THEN NULL ELSE q.tail_],
              ret |-> p]
    ELSE [q |-> q, ret |-> NULL]

\* Items never pushed: freshly constructed work objects (next_ = nullptr).
Fresh == Work \ {pushLog[i] : i \in 1..Len(pushLog)}

InitQueue ==
    /\ q_ = [head_ |-> NULL, tail_ |-> NULL, next_ |-> [w \in Work |-> NULL]]
    /\ inRun = FALSE
    /\ runNo = 0
    /\ pushLog = <<>>
    /\ popLog = <<>>
    /\ lastPop = [ret |-> NULL, held |-> 0]
    /\ postedIn = [w \in Work |-> -1]
    /\ execLog = <<>>
    /\ ioOp = "init"

InitRoot ==
    /\ crashed = FALSE
    /\ frame = [f \in Frames |-> [st |-> "none", stmts |-> 0]]
    /\ owner = [f \in Frames |-> "none"]
    /\ h_ = [f \in Frames |-> NULL]
    /\ destroyLog = [f \in Frames |-> <<>>]
    /\ resumeLog = [f \in Frames |-> <<>>]
    /\ token = [f \in Frames |-> "none"]

InitPool ==
    /\ pool = [mem    |-> [a \in PoolAddrs |-> [next |-> NULL, size |-> 0]],
               local  |-> [t \in Threads |-> NULL],
               global |-> NULL]
    /\ made = 0
    /\ held = {}
    /\ lastFreed = [t |-> 0, n |-> 0]
    /\ adopted = {}

NoAlloc == [kind |-> "none", id |-> 0]

InitAlloc ==
    /\ hdr = <<>>
    /\ custom = [a \in Customs |-> {}]
    /\ frames = {}

InitCache ==
    /\ ptr_ = NULL
    /\ size_ = 0
    /\ heap = {}
    /\ opLive = {}
    /\ hist = <<>>

InitDispatch == dispatchLog = <<>>

InitRequeue ==
    /\ linked = <<>>
    /\ gone = FALSE
    /\ deleted = <<>>

NoHandler == [op |-> "none", rc |-> 0, qc |-> 0]

InitChain ==
    /\ opHandler = [p \in 1..MaxOps |-> NoHandler]
    /\ stats = [op |-> "none", posted |-> 0, executed |-> 0, completed |-> 0,
                news |-> 0, newsInRun |-> 0, maxLive |-> 0,
                at |-> [executed |-> 0, posted |-> 0, inRun |-> FALSE]]

InitRuns == runStat = [allocs |-> 0, fresh |-> 0, quiet |-> FALSE]

Idle == [pc |-> "idle", n |-> 0, b |-> NULL]

InitThreads ==
    /\ tpc = [t \in Threads |-> Idle]
    /\ flight = [b \in PoolAddrs |-> 0]

Init ==
    /\ InitQueue /\ InitRoot /\ InitPool /\ InitAlloc /\ InitCache /\ InitDispatch
    /\ InitRequeue
    /\ InitChain
    /\ InitRuns
    /\ InitThreads

\* q.push(p) with a work object that was not pushed before.
QPush(p) ==
    /\ p \in Fresh
    /\ q_' = push(q_, p)
    /\ pushLog' = Append(pushLog, p)
    /\ ioOp' = "push"
    /\ UNCHANGED <<inRun, runNo, popLog, lastPop, postedIn, execLog>>
    /\ UNCHANGED notQueue

\* q.pop(), also on an empty queue.
QPop ==
    LET r == pop(q_) IN
    /\ q_' = r.q
    /\ popLog' = IF r.ret = NULL THEN popLog ELSE Append(popLog, r.ret)
    /\ lastPop' = [ret |-> r.ret, held |-> Len(pushLog) - Len(popLog)]
    /\ ioOp' = "pop"
    /\ UNCHANGED <<inRun, runNo, pushLog, postedIn, execLog>>
    /\ UNCHANGED notQueue

NextQueue ==
    \/ \E p \in Work : QPush(p)
    \/ QPop

SpecQueue == Init /\ [][NextQueue]_vars

-----------------------------------------------------------------------------
(* work_queue used through push and pop alone, bench.hpp:62-104: the       *)
(* caller owns an item that pop returned and may push it again; its next_  *)
(* still holds what it held in the queue.  ~work_queue ends the queue.     *)

\* s without its first element equal to x.
RECURSIVE RemoveFirst(_, _)
RemoveFirst(s, x) ==
    IF s = <<>> THEN <<>>
    ELSE IF Head(s) = x THEN Tail(s)
    ELSE <<Head(s)>> \o RemoveFirst(Tail(s), x)

\* ~work_queue(): while(head_) { auto p = head_; head_ = head_->next_; delete p; }
\* The items deleted, in order.  The walk ends at a null link; it is cut
\* after `fuel` deletions, which a walk over distinct items never needs.
RECURSIVE destroy_queue(_, _, _)
destroy_queue(next, head, fuel) ==
    IF head = NULL \/ fuel = 0 THEN <<>>
    ELSE <<head>> \o destroy_queue(next, next[head], fuel - 1)

\* q.push(p) with an item that is not in the queue: a new one, or one that
\* pop returned before.
QPushAgain(p) ==
    /\ ~gone
    /\ Len(pushLog) < MaxPushes
    /\ \A i \in 1..Len(linked) : linked[i] # p
    /\ q_' = push(q_, p)
    /\ pushLog' = Append(pushLog, p)
    /\ linked' = Append(linked, p)
    /\ ioOp' = "push"
    /\ UNCHANGED <<inRun, runNo, popLog, lastPop, postedIn, execLog, gone, deleted>>
    /\ UNCHANGED notRequeue

\* q.pop(), also on an empty queue.  Stale links can make pop return
\* items without end; the pops are counted up to one more than the pushes.
QPopAgain ==
    LET r == pop(q_) IN
    /\ ~gone
    /\ Len(popLog) <= MaxPushes
    /\ q_' = r.q
    /\ popLog' = IF r.ret = NULL THEN popLog ELSE Append(popLog, r.ret)
    /\ lastPop' = [ret |-> r.ret, held |-> Len(linked)]
    /\ linked' = RemoveFirst(linked, r.ret)
    /\ ioOp' = "pop"
    /\ UNCHANGED <<inRun, runNo, pushLog, postedIn, execLog, gone, deleted>>
    /\ UNCHANGED notRequeue

\* The length of the shortest prefix of s that holds an element twice,
\* 0 if s holds none twice.
FirstRepeat(s) ==
    LET twice == {n \in 1..Len(s) : \E i \in 1..(n - 1) : s[i] = s[n]}
    IN  IF twice = {} THEN 0 ELSE CHOOSE n \in twice : \A m \in twice : n <= m

\* The queue is destroyed with the items that are linked in it.  Deleting
\* an item a second time is undefined: the process aborts there or the
\* walk goes on.
QDestroy ==
    LET walk == destroy_queue(q_.next_, q_.head_, MaxWork + 1)
        r    == FirstRepeat(walk)
    IN  /\ ~gone
        /\ gone' = TRUE
        /\ \E outcome \in (IF r = 0 THEN {"run"} ELSE {"run", "abort"}) :
              /\ deleted' = IF outcome = "abort" THEN SubSeq(walk, 1, r) ELSE walk
              /\ crashed' = (crashed \/ outcome = "abort")
        /\ ioOp' = "destroy"
        /\ UNCHANGED <<q_, inRun, runNo, pushLog, popLog, lastPop, postedIn, execLog, linked>>
        /\ UNCHANGED <<frame, owner, h_, destroyLog, resumeLog, token>>
        /\ UNCHANGED <<pvars, avars, cvars, dvars, hvars, uvars, mvars>>

NextRequeue ==
    \/ \E p \in Work : QPushAgain(p)
    \/ QPopAgain
    \/ QDestroy

SpecRequeue == Init /\ [][NextRequeue]_vars

-----------------------------------------------------------------------------
(* io_context, bench.hpp:130-173 *)

\* A faulty variant of post: the item is run at once, as dispatch runs an invocable.
post_inline(st, w) ==
    [st EXCEPT !.execLog = Append(st.execLog, [w |-> w, inRun |-> st.inRun, run |-> st.runNo]),
               !.pushLog = Append(st.pushLog, w),
               !.postedIn[w] = IF st.inRun THEN st.runNo ELSE 0]

\* void executor::post(work* w) const { ctx_->q_.push(w); }
\* st is the io_context with its ghosts: [q, pushLog, postedIn, execLog, inRun, runNo].
post(st, w) ==
    [st EXCEPT !.q = push(st.q, w),
               !.pushLog = Append(st.pushLog, w),
               !.postedIn[w] = IF st.inRun THEN st.runNo ELSE 0]

RECURSIVE postAll(_, _)
postAll(st, s) ==
    IF s = <<>> THEN st ELSE postAll(post(st, Head(s)), Tail(s))

IoState ==
    [q |-> q_, pushLog |-> pushLog, postedIn |-> postedIn, execLog |-> execLog,
     inRun |-> inRun, runNo |-> runNo]

SetIoState(st) ==
    /\ q_' = st.q
    /\ pushLog' = st.pushLog
    /\ postedIn' = st.postedIn
    /\ execLog' = st.execLog

\* Sequences of distinct fresh items, of length 0..MaxPosts: what one
\* executing work item posts.
PostSeqs ==
    {s \in UNION {[1..n -> Fresh] : n \in 0..MaxPosts} :
        \A i, j \in 1..Len(s) : i # j => s[i] # s[j]}

\* The caller posts a work item; run() is not on the stack.
Post(w) ==
    /\ ~inRun
    /\ w \in Fresh
    /\ SetIoState(post(IoState, w))
    /\ ioOp' = "post"
    /\ UNCHANGED <<inRun, runNo, popLog, lastPop>>
    /\ UNCHANGED notQueue

\* void run(): entry.
RunEnter ==
    /\ ~crashed
    /\ ~inRun
    /\ runNo < MaxRuns
    /\ inRun' = TRUE
    /\ runNo' = runNo + 1
    /\ ioOp' = "enter"
    /\ UNCHANGED <<q_, pushLog, popLog, lastPop, postedIn, execLog>>
    /\ UNCHANGED notQueue

\* The state after run() pops one item and executes it; the item posts
\* the items of kids while it runs.
runStep(st, kids) ==
    LET r  == pop(st.q)
        s1 == [st EXCEPT !.q = r.q,
                         !.execLog = Append(st.execLog,
                             [w |-> r.ret, inRun |-> st.inRun, run |-> st.runNo])]
    IN  postAll(s1, kids)

\* while(!q_.empty()) (*q_.pop())();  one iteration.
RunExec ==
    /\ inRun
    /\ ~empty(q_)
    /\ \E kids \in PostSeqs :
          SetIoState(runStep(IoState, kids))
    /\ ioOp' = "exec"
    /\ UNCHANGED <<inRun, runNo, popLog, lastPop>>
    /\ UNCHANGED notQueue

\* A faulty variant of the loop of run(): it may stop while items are queued.
RunReturn_anytime ==
    /\ ~crashed
    /\ inRun
    /\ inRun' = FALSE
    /\ ioOp' = "return"
    /\ UNCHANGED <<q_, runNo, pushLog, popLog, lastPop, postedIn, execLog>>
    /\ UNCHANGED notQueue

\* run() finds the queue empty and returns.
RunReturn ==
    /\ ~crashed
    /\ inRun
    /\ empty(q_)
    /\ inRun' = FALSE
    /\ ioOp' = "return"
    /\ UNCHANGED <<q_, runNo, pushLog, popLog, lastPop, postedIn, execLog>>
    /\ UNCHANGED notQueue

NextRun ==
    \/ \E w \in Work : Post(w)
    \/ RunEnter
    \/ RunExec
    \/ RunReturn

SpecRun == Init /\ [][NextRun]_vars

\* run() is a loop on the calling thread: once entered it goes on with the
\* next iteration, or returns, as long as it can.
SpecRunFair == SpecRun /\ WF_vars(RunExec) /\ WF_vars(RunReturn)

-----------------------------------------------------------------------------
(* io_context::executor::dispatch, bench.hpp:136-148.  A work item that is *)
(* executed by run() posts some items and then dispatches its              *)
(* continuation: a coroutine handle or a plain invocable.                  *)

\* The items linked from p up to the item last, in list order.
RECURSIVE Chain(_, _, _, _)
Chain(next, p, last, fuel) ==
    IF p = NULL \/ fuel = 0 THEN <<>>
    ELSE IF p = last THEN <<p>>
    ELSE <<p>> \o Chain(next, next[p], last, fuel - 1)

\* The items of the queue, from head_ to tail_.
Queued(q) == Chain(q.next_, q.head_, q.tail_, MaxWork)

\* The work objects not pushed so far, lowest first: the objects the
\* operations construct, in construction order.
RECURSIVE Ascending(_)
Ascending(S) ==
    IF S = {} THEN <<>>
    ELSE LET m == CHOOSE x \in S : \A y \in S : x <= y
         IN  <<m>> \o Ascending(S \ {m})

\* What an item and its continuation post: [kids, body], the next
\* work objects in construction order, at most MaxPosts each.
DispatchPosts ==
    LET f == Ascending(Fresh)
        counts == {c \in (0..MaxPosts) \X (0..MaxPosts) : c[1] + c[2] <= Len(f)}
    IN  {[kids |-> SubSeq(f, 1, c[1]), body |-> SubSeq(f, c[1] + 1, c[1] + c[2])] :
            c \in counts}

\* A faulty variant of dispatch(F&&): the invocable is dropped.
dispatch_dropped(q, f) == [q |-> q, ret |-> NULL, invoked |-> 0]

\* template<class F> void dispatch(F&& f) const { std::forward<F>(f)(); }
\* invoked: the number of calls of f made before dispatch returns.
dispatch(q, f) == [q |-> q, ret |-> NULL, invoked |-> 1]

\* coro dispatch(coro h) const { return h; }
dispatch_coro(q, h) == [q |-> q, ret |-> h, invoked |-> 0]

\* One iteration of run() whose item posts the items of kids and then
\* dispatches its continuation (named like the item); an invocable posts
\* the items of body when it is invoked.
RunExecDispatch ==
    /\ inRun
    /\ ~empty(q_)
    /\ \E ps \in DispatchPosts, kind \in {"invocable", "coro"} :
          LET w  == pop(q_).ret
              s1 == runStep(IoState, ps.kids)
              d  == IF kind = "coro" THEN dispatch_coro(s1.q, w) ELSE dispatch(s1.q, w)
              s2 == [s1 EXCEPT !.q = d.q]
              e  == [by |-> w, kind |-> kind, arg |-> w, ret |-> d.ret,
                     invoked |-> d.invoked, at |-> Len(s1.execLog),
                     qBefore |-> s1.q, qAfter |-> d.q, queued |-> Queued(s1.q)]
          IN  /\ d.invoked = 0 => ps.body = <<>>
              /\ SetIoState(postAll(s2, ps.body))
              /\ dispatchLog' = Append(dispatchLog, e)
    /\ ioOp' = "exec"
    /\ UNCHANGED <<inRun, runNo, popLog, lastPop>>
    /\ UNCHANGED notDispatch

NextDispatch ==
    \/ \E w \in Work : w = Head(Ascending(Fresh) \o <<NULL>>) /\ Post(w) /\ UNCHANGED dvars
    \/ RunEnter /\ UNCHANGED dvars
    \/ RunExecDispatch
    \/ RunReturn /\ UNCHANGED dvars

SpecDispatch == Init /\ [][NextDispatch]_vars

-----------------------------------------------------------------------------
(* root_task, bench_co_detail.hpp:207-280.  Frame f's promise embeds the   *)
(* starter, work object f; the io_context is the one above.  The caller's  *)
(* operations (create, post the starter, release, destroy the owner) run   *)
(* outside run(); run() executes the queued starters.                      *)

\* What the coroutine operations act on.
RootState ==
    [frame |-> frame, destroyLog |-> destroyLog, resumeLog |-> resumeLog,
     token |-> token]

SetRootState(r) ==
    /\ frame' = r.frame
    /\ destroyLog' = r.destroyLog
    /\ resumeLog' = r.resumeLog
    /\ token' = r.token

\* coroutine_handle::destroy() on frame f, called by the final awaiter or
\* by ~root_task: the promise is destructed and the frame is handed to
\* promise_allocator::operator delete.  live: the frame existed.
destroy(r, f, by) ==
    [r EXCEPT !.destroyLog[f] = Append(@, [by    |-> by,
                                            stmts |-> r.frame[f].stmts,
                                            live  |-> r.frame[f].st = "suspended"]),
              !.frame[f].st = "destroyed"]

\* final_suspend's awaiter: await_suspend(h) { h.destroy(); return std::noop_coroutine(); }
final_suspend(r, f) ==
    [destroy(r, f, "final") EXCEPT !.token[f] = "noop"]

\* coroutine_handle::resume() on frame f, suspended at initial_suspend: the
\* body runs its statements, then return_void and final_suspend.
resume(r, f) ==
    LET r1 == [r EXCEPT !.resumeLog[f] = Append(@, [live |-> r.frame[f].st = "suspended"]),
                        !.frame[f].stmts = BodyLen]
    IN  final_suspend(r1, f)

\* starter::operator()() { h_.resume(); }  The starter is not deleted.
starter_call(r, f) == resume(r, f)

\* Using a frame that was destroyed is undefined: the build either goes
\* on with the stale memory or aborts.
Outcomes(f) == IF frame[f].st = "suspended" THEN {"run"} ELSE {"run", "abort"}

\* wrapper<Executor>(task): the frame is allocated, get_return_object makes
\* the root_task that holds the handle, initial_suspend suspends.
RootCreate(f) ==
    /\ ~crashed
    /\ ~inRun
    /\ owner[f] = "none"
    /\ frame' = [frame EXCEPT ![f] = [st |-> "suspended", stmts |-> 0]]
    /\ owner' = [owner EXCEPT ![f] = "alive"]
    /\ h_' = [h_ EXCEPT ![f] = f]
    /\ UNCHANGED <<crashed, destroyLog, resumeLog, token>>
    /\ UNCHANGED qvars
    /\ UNCHANGED notRoot

\* ex.post(&h_.promise().starter_), with starter_.h_ = h_.
RootPost(f) ==
    /\ ~crashed
    /\ ~inRun
    /\ owner[f] = "alive"
    /\ h_[f] # NULL
    /\ frame[h_[f]].st = "suspended"
    /\ f \in Fresh
    /\ SetIoState(post(IoState, f))
    /\ ioOp' = "post"
    /\ UNCHANGED <<inRun, runNo, popLog, lastPop>>
    /\ UNCHANGED rvars
    /\ UNCHANGED notRoot

\* void release() { h_ = nullptr; }
RootRelease(f) ==
    /\ ~crashed
    /\ ~inRun
    /\ owner[f] = "alive"
    /\ h_[f] # NULL
    /\ h_' = [h_ EXCEPT ![f] = NULL]
    /\ UNCHANGED <<crashed, frame, owner, destroyLog, resumeLog, token>>
    /\ UNCHANGED qvars
    /\ UNCHANGED notRoot

\* ~root_task() { if(h_) h_.destroy(); }
RootDtor(f) ==
    /\ ~crashed
    /\ ~inRun
    /\ owner[f] = "alive"
    /\ owner' = [owner EXCEPT ![f] = "gone"]
    /\ IF h_[f] # NULL
       THEN \E o \in Outcomes(h_[f]) :
               /\ SetRootState(destroy(RootState, h_[f], "owner"))
               /\ crashed' = (o = "abort")
       ELSE UNCHANGED <<crashed, frame, destroyLog, resumeLog, token>>
    /\ UNCHANGED h_
    /\ UNCHANGED qvars
    /\ UNCHANGED notRoot

\* One iteration of run(): the popped work object is the starter of frame f.
RootRunExec ==
    /\ ~crashed
    /\ inRun
    /\ ~empty(q_)
    /\ LET r == pop(q_)
           f == r.ret
       IN  \E o \in Outcomes(f) :
              /\ q_' = r.q
              /\ execLog' = Append(execLog, [w |-> f, inRun |-> inRun, run |-> runNo])
              /\ IF o = "run"
                 THEN SetRootState(starter_call(RootState, f)) /\ UNCHANGED crashed
                 ELSE crashed' = TRUE /\ UNCHANGED <<frame, destroyLog, resumeLog, token>>
    /\ ioOp' = "exec"
    /\ UNCHANGED <<inRun, runNo, pushLog, popLog, lastPop, postedIn>>
    /\ UNCHANGED <<owner, h_>>
    /\ UNCHANGED notRoot

NextRoot ==
    \/ \E f \in Frames : RootCreate(f)
    \/ \E f \in Frames : RootPost(f)
    \/ \E f \in Frames : RootRelease(f)
    \/ \E f \in Frames : RootDtor(f)
    \/ RunEnter
    \/ RootRunExec
    \/ RunReturn

SpecRoot == Init /\ [][NextRoot]_vars

-----------------------------------------------------------------------------
(* The io_context is destroyed, and its work_queue with it, while          *)
(* root_task starters may be queued: bench.hpp:64-72 with                  *)
(* bench_co_detail.hpp:210-224.  Afterwards nothing is posted or run; the  *)
(* owners of the frames are still released or destroyed.                   *)

\* ~work_queue(): while(head_) { auto p = head_; head_ = head_->next_; delete p; }
\* Every item linked is a starter, a member of a promise inside a coroutine
\* frame.  delete on it is undefined (the pointer did not come from new):
\* the process aborts at the first one, or the walk goes on; the frame's
\* destroy() is not called either way.
RootQueueDtor ==
    LET walk == destroy_queue(q_.next_, q_.head_, MaxWork + 1)
    IN  /\ ~crashed
        /\ ~inRun
        /\ ~gone
        /\ gone' = TRUE
        /\ \E outcome \in (IF walk = <<>> THEN {"run"} ELSE {"run", "abort"}) :
              /\ deleted' = IF outcome = "abort" THEN SubSeq(walk, 1, 1) ELSE walk
              /\ crashed' = (outcome = "abort")
        /\ ioOp' = "destroy"
        /\ UNCHANGED <<q_, inRun, runNo, pushLog, popLog, lastPop, postedIn, execLog, linked>>
        /\ UNCHANGED <<frame, owner, h_, destroyLog, resumeLog, token>>
        /\ UNCHANGED <<pvars, avars, cvars, dvars, hvars, uvars, mvars>>

NextTeardown ==
    \/ \E f \in Frames : ~gone /\ RootCreate(f)
    \/ \E f \in Frames : ~gone /\ RootPost(f)
    \/ \E f \in Frames : RootRelease(f)
    \/ \E f \in Frames : RootDtor(f)
    \/ ~gone /\ RunEnter
    \/ ~gone /\ RootRunExec
    \/ ~gone /\ RunReturn
    \/ RootQueueDtor

SpecTeardown == Init /\ [][NextTeardown]_vars

-----------------------------------------------------------------------------
(* frame_pool, bench_co_detail.hpp:30-153.  A block is named by the        *)
(* address of its header; the caller sees the address behind the header.   *)
(* allocate and deallocate are taken as one step each: the local list is   *)
(* private to its thread and the global list is only touched under its     *)
(* mutex, so a finer interleaving reaches no other state.                  *)

\* A faulty variant of the size test: the header is not counted.
Fits_nohdr(mem, b, n) == mem[b].size >= n

\* (*pp)->size >= n + sizeof(block): size is the total size of the block.
Fits(mem, b, n) == mem[b].size >= n + BlockHdr

\* The first-fit scan of local_pool::pop and global_pool::pop:
\*   block** pp = &head; while(*pp) { if(fits) { p = *pp; *pp = p->next;
\*   return p; } pp = &(*pp)->next; } return nullptr;
\* prev = NULL stands for pp = &head.
RECURSIVE scan(_, _, _, _, _)
scan(mem, head, prev, cur, n) ==
    IF cur = NULL
    THEN [mem |-> mem, head |-> head, ret |-> NULL]
    ELSE IF Fits(mem, cur, n)
         THEN IF prev = NULL
              THEN [mem |-> mem, head |-> mem[cur].next, ret |-> cur]
              ELSE [mem  |-> [mem EXCEPT ![prev].next = mem[cur].next],
                    head |-> head, ret |-> cur]
         ELSE scan(mem, head, cur, mem[cur].next, n)

\* A faulty variant of local_pool::pop: the freed blocks are never found.
local_pop_miss(P, t, n) == [P |-> P, ret |-> NULL]

\* A faulty variant of local_pool::pop: the block found stays linked.
local_pop_keep(P, t, n) ==
    [P |-> P, ret |-> scan(P.mem, P.local[t], NULL, P.local[t], n).ret]

\* block* local_pool::pop(std::size_t n), on the list of thread t.
local_pop(P, t, n) ==
    LET r == scan(P.mem, P.local[t], NULL, P.local[t], n)
    IN  [P |-> [P EXCEPT !.mem = r.mem, !.local[t] = r.head], ret |-> r.ret]

\* block* global_pool::pop(std::size_t n), under the mutex.
global_pop(P, n) ==
    LET r == scan(P.mem, P.global, NULL, P.global, n)
    IN  [P |-> [P EXCEPT !.mem = r.mem, !.global = r.head], ret |-> r.ret]

\* void local_pool::push(block* b) { b->next = head; head = b; }
local_push(P, t, b) ==
    [P EXCEPT !.mem[b].next = P.local[t], !.local[t] = b]

\* void global_pool::push(block* b), under the mutex.
global_push(P, b) ==
    [P EXCEPT !.mem[b].next = P.global, !.global = b]

\* A faulty variant of deallocate: the block goes to the global list.
deallocate_global(P, t, p) ==
    LET b == p - BlockHdr
    IN  global_push([P EXCEPT !.mem[b].next = NULL], b)

\* A faulty variant of deallocate: the block is put on no list.
deallocate_leak(P, t, p) == P

\* void deallocate(void* p, std::size_t) on thread t: the header lies
\* sizeof(block) before p; the size parameter is not read.
deallocate(P, t, p) ==
    LET b == p - BlockHdr
    IN  local_push([P EXCEPT !.mem[b].next = NULL], t, b)

\* void* allocate(std::size_t n) on thread t; fresh is the address
\* ::operator new(total) returns if it is called.
allocate(P, t, n, fresh) ==
    LET total == n + BlockHdr
        l == local_pop(P, t, n)
        g == global_pop(P, n)
    IN  IF l.ret # NULL
        THEN [P |-> l.P, p |-> l.ret + BlockHdr, origin |-> "local"]
        ELSE IF g.ret # NULL
        THEN [P |-> g.P, p |-> g.ret + BlockHdr, origin |-> "global"]
        ELSE [P |-> [P EXCEPT !.mem[fresh] = [next |-> NULL, size |-> total]],
              p |-> fresh + BlockHdr, origin |-> "fresh"]

\* The blocks linked from head, in list order.
RECURSIVE ListOf(_, _, _)
ListOf(mem, head, fuel) ==
    IF head = NULL \/ fuel = 0 THEN <<>>
    ELSE <<head>> \o ListOf(mem, mem[head].next, fuel - 1)

\* The next address of the general allocator.
NextAddr == (made + 1) * PoolStride

PoolAllocate(t, n) ==
    LET r == allocate(pool, t, n, NextAddr) IN
    /\ r.origin = "fresh" => made < MaxBlocks
    /\ pool' = r.P
    /\ made' = IF r.origin = "fresh" THEN made + 1 ELSE made
    /\ held' = held \cup {[p |-> r.p, n |-> n]}
    /\ lastFreed' = IF lastFreed.t = t THEN [t |-> 0, n |-> 0] ELSE lastFreed
    /\ adopted' = IF r.origin = "global" THEN adopted \cup {r.p - BlockHdr} ELSE adopted
    /\ UNCHANGED notPool

\* Thread t frees a block in flight, with the size it was asked for.
PoolDeallocate(t, x) ==
    /\ x \in held
    /\ pool' = deallocate(pool, t, x.p)
    /\ held' = held \ {x}
    /\ lastFreed' = [t |-> t, n |-> x.n]
    /\ UNCHANGED <<made, adopted>>
    /\ UNCHANGED notPool

\* allocate and deallocate never call global_pool::push.  For the global
\* list to hold anything, blocks are pushed on it here before the first
\* allocate, each with the total size of a request of n bytes.
PoolGlobalPush(n) ==
    /\ made < MaxBlocks
    /\ Len(ListOf(pool.mem, pool.global, MaxBlocks + 1)) = made
    /\ pool' = global_push([pool EXCEPT !.mem[NextAddr] = [next |-> NULL, size |-> n + BlockHdr]],
                           NextAddr)
    /\ made' = made + 1
    /\ UNCHANGED <<held, lastFreed, adopted>>
    /\ UNCHANGED notPool

NextPool ==
    \/ \E t \in Threads, n \in ReqSizes : PoolAllocate(t, n)
    \/ \E t \in Threads, x \in held : PoolDeallocate(t, x)
    \/ \E n \in ReqSizes : PoolGlobalPush(n)

SpecPool == Init /\ [][NextPool]_vars

-----------------------------------------------------------------------------
(* frame_pool called by several threads at once, bench_co_detail.hpp:      *)
(* 116-140.  A call is a sequence of steps, and the steps of different     *)
(* threads interleave: allocate is local().pop, then global().pop under    *)
(* the mutex, then ::operator new; deallocate is the write of b->next and  *)
(* then local().push.  A block in flight is passed between threads by its  *)
(* holder and is freed by one thread.                                      *)

\* allocate on thread t returns block b for a request of n bytes.
Returned(t, b, n) ==
    /\ tpc' = [tpc EXCEPT ![t] = Idle]
    /\ flight' = [flight EXCEPT ![b] = @ + 1]
    /\ held' = held \cup {[p |-> b + BlockHdr, n |-> n]}

\* allocate(n) is called on thread t: if(auto* b = local().pop(n)) return ...;
AllocLocal(t, n) ==
    LET l == local_pop(pool, t, n) IN
    /\ tpc[t].pc = "idle"
    /\ pool' = l.P
    /\ IF l.ret # NULL
       THEN Returned(t, l.ret, n)
       ELSE /\ tpc' = [tpc EXCEPT ![t] = [pc |-> "global", n |-> n, b |-> NULL]]
            /\ UNCHANGED <<flight, held>>
    /\ UNCHANGED <<made, lastFreed, adopted>>
    /\ UNCHANGED notThreads

\* if(auto* b = global().pop(n)) return ...;  The scan holds the mutex.
AllocGlobal(t) ==
    LET g == global_pop(pool, tpc[t].n) IN
    /\ tpc[t].pc = "global"
    /\ pool' = g.P
    /\ IF g.ret # NULL
       THEN Returned(t, g.ret, tpc[t].n)
       ELSE /\ tpc' = [tpc EXCEPT ![t].pc = "new"]
            /\ UNCHANGED <<flight, held>>
    /\ UNCHANGED <<made, lastFreed, adopted>>
    /\ UNCHANGED notThreads

\* auto* b = static_cast<block*>(::operator new(total)); b->next = nullptr;
\* b->size = total; return ...;
AllocFresh(t) ==
    /\ tpc[t].pc = "new"
    /\ made < MaxBlocks
    /\ pool' = [pool EXCEPT !.mem[NextAddr] = [next |-> NULL, size |-> tpc[t].n + BlockHdr]]
    /\ made' = made + 1
    /\ Returned(t, NextAddr, tpc[t].n)
    /\ UNCHANGED <<lastFreed, adopted>>
    /\ UNCHANGED notThreads

\* deallocate(p, n) is called on thread t with a block in flight that no
\* other thread is freeing: b->next = nullptr;
FreeUnlink(t, x) ==
    LET b == x.p - BlockHdr IN
    /\ tpc[t].pc = "idle"
    /\ x \in held
    /\ pool' = [pool EXCEPT !.mem[b].next = NULL]
    /\ held' = held \ {x}
    /\ tpc' = [tpc EXCEPT ![t] = [pc |-> "push", n |-> 0, b |-> b]]
    /\ UNCHANGED <<made, lastFreed, adopted, flight>>
    /\ UNCHANGED notThreads

\* local().push(b);
FreePush(t) ==
    /\ tpc[t].pc = "push"
    /\ pool' = local_push(pool, t, tpc[t].b)
    /\ flight' = [flight EXCEPT ![tpc[t].b] = @ - 1]
    /\ tpc' = [tpc EXCEPT ![t] = Idle]
    /\ UNCHANGED <<made, held, lastFreed, adopted>>
    /\ UNCHANGED notThreads

NextThreads ==
    \/ \E t \in Threads, n \in RunSizes : AllocLocal(t, n)
    \/ \E t \in Threads : AllocGlobal(t)
    \/ \E t \in Threads : AllocFresh(t)
    \/ \E t \in Threads, x \in held : FreeUnlink(t, x)
    \/ \E t \in Threads : FreePush(t)
    \/ \E n \in RunSizes : PoolGlobalPush(n)

SpecThreads == Init /\ [][NextThreads]_vars

LocalList(P, t) == ListOf(P.mem, P.local[t], MaxBlocks + 1)
GlobalList(P) == ListOf(P.mem, P.global, MaxBlocks + 1)

-----------------------------------------------------------------------------
(* The loop of bench_co, bench.cpp:84-88: runs one after another on one    *)
(* thread.  A run allocates its coroutine frames from frame_pool::shared() *)
(* and has freed all of them when it ends.                                 *)

\* The thread of the benchmark loop.
RunThread == CHOOSE t \in Threads : \A u \in Threads : t <= u
\* Frames of one run that are live at the same time.
RunLive == MaxBlocks
\* The number of blocks the runs are to stay within.
RunBlocks == Cardinality(RunSizes) * RunLive
\* The general allocator has one block more than that to give.
RunAddrs == {k * PoolStride : k \in 1..(RunBlocks + 1)}

InitPoolRuns ==
    /\ pool = [mem    |-> [a \in RunAddrs |-> [next |-> NULL, size |-> 0]],
               local  |-> [t \in Threads |-> NULL],
               global |-> NULL]
    /\ made = 0
    /\ held = {}
    /\ lastFreed = [t |-> 0, n |-> 0]
    /\ adopted = {}

InitBench ==
    /\ InitQueue /\ InitRoot /\ InitPoolRuns /\ InitAlloc /\ InitCache /\ InitDispatch
    /\ InitRequeue
    /\ InitChain
    /\ InitRuns
    /\ InitThreads

\* The blocks of the thread's local free list.
RunList == ListOf(pool.mem, pool.local[RunThread], RunBlocks + 2)

\* A coroutine of the run is created: its frame of n bytes is allocated.
RunAllocate(n) ==
    LET r == allocate(pool, RunThread, n, NextAddr) IN
    /\ Cardinality(held) < RunLive
    /\ runStat.allocs <= RunLive
    /\ r.origin = "fresh" => made <= RunBlocks
    /\ pool' = r.P
    /\ made' = IF r.origin = "fresh" THEN made + 1 ELSE made
    /\ held' = held \cup {[p |-> r.p, n |-> n]}
    /\ runStat' = [runStat EXCEPT !.allocs = @ + 1,
                                  !.fresh = @ + (IF r.origin = "fresh" THEN 1 ELSE 0)]
    /\ UNCHANGED <<lastFreed, adopted>>
    /\ UNCHANGED notRuns

\* A coroutine of the run is destroyed: its frame is freed.
RunDeallocate(x) ==
    /\ x \in held
    /\ pool' = deallocate(pool, RunThread, x.p)
    /\ held' = held \ {x}
    /\ UNCHANGED <<made, lastFreed, adopted, runStat>>
    /\ UNCHANGED notRuns

\* The run ends, all its frames freed; the next one starts.
RunEnd ==
    /\ held = {}
    /\ runStat.allocs > 0
    /\ runStat' = [allocs |-> 0, fresh |-> 0, quiet |-> (runStat.fresh = 0)]
    /\ UNCHANGED pvars
    /\ UNCHANGED notRuns

NextBench ==
    \/ \E n \in RunSizes : RunAllocate(n)
    \/ \E x \in held : RunDeallocate(x)
    \/ RunEnd

SpecBench == InitBench /\ [][NextBench]_vars

-----------------------------------------------------------------------------
(* promise_allocator, bench_co_detail.hpp:156-204.  The allocators are     *)
(* frame_pool::shared(), modelled above, and caller-supplied ones, which   *)
(* hand out any free address of their heap.  M is the memory and the       *)
(* allocators: [pool, custom, hdr].                                        *)

\* What lies at an address no header was written to.
Garbage == [dealloc |-> "garbage", ctx |-> NoAlloc]

ReadHdr(h, a) == IF a \in DOMAIN h THEN h[a] ELSE Garbage

\* alloc.allocate(total) on thread t; addr is what the general allocator
\* or the heap of the caller-supplied allocator returns if it is asked.
alloc_allocate(M, t, alloc, total, addr) ==
    IF alloc = SharedPool
    THEN LET r == allocate(M.pool, t, total, addr)
         IN  [M |-> [M EXCEPT !.pool = r.P], raw |-> r.p, origin |-> r.origin]
    ELSE [M |-> [M EXCEPT !.custom[alloc] = @ \cup {[p |-> addr, n |-> total]}],
          raw |-> addr, origin |-> "fresh"]

\* The lambda allocate_with stores in the header, one per allocator type:
\*   [](void* ctx, void* p, std::size_t n) { static_cast<Allocator*>(ctx)->deallocate(p, n); }
dealloc_call(M, t, c) ==
    IF c.dealloc = "frame_pool"
    THEN [M EXCEPT !.pool = deallocate(M.pool, t, c.p)]
    ELSE IF c.dealloc = "custom"
    THEN [M EXCEPT !.custom[c.ctx] = @ \ {[p |-> c.p, n |-> c.n]}]
    ELSE M

\* static void* allocate_with(std::size_t size, Allocator& alloc): the
\* header is written at raw and the frame starts behind it.
allocate_with(M, t, size, alloc, addr) ==
    LET total == size + HdrSize
        r     == alloc_allocate(M, t, alloc, total, addr)
        h     == [dealloc |-> alloc.kind, ctx |-> alloc]
    IN  [M      |-> [r.M EXCEPT !.hdr = (r.raw :> h) @@ r.M.hdr],
         ptr    |-> r.raw + HdrSize,
         origin |-> r.origin]

\* A faulty variant of operator delete: every frame goes back to the shared pool.
operator_delete_shared(ptr, size) ==
    [dealloc |-> "frame_pool", ctx |-> SharedPool, p |-> ptr - HdrSize, n |-> size + HdrSize]

\* static void operator delete(void* ptr, std::size_t size): the call
\* p->dealloc(p->ctx, p, total) it makes, read from the header before ptr
\* in the memory hdr.
operator_delete(ptr, size) ==
    LET p     == ptr - HdrSize
        total == size + HdrSize
        h     == ReadHdr(hdr, p)
    IN  [dealloc |-> h.dealloc, ctx |-> h.ctx, p |-> p, n |-> total]

AllocState == [pool |-> pool, custom |-> custom, hdr |-> hdr]

\* The address a caller-supplied allocator returns: the lowest one of the
\* heap that is not in use, so that a freed address is handed out again,
\* possibly by the other allocator.
FreeCustomAddrs ==
    LET free == CustomAddrs \ UNION {{x.p : x \in custom[a]} : a \in Customs}
    IN  {x \in free : \A y \in free : x <= y}

\* operator new(size) and operator new(size, arg0, ...): a coroutine frame
\* of `size` bytes is created on thread t from allocator alloc.
AllocNew(t, alloc, size) ==
    \E addr \in (IF alloc = SharedPool THEN {NextAddr} ELSE FreeCustomAddrs) :
        LET r == allocate_with(AllocState, t, size, alloc, addr) IN
        /\ Cardinality(frames) < MaxBlocks
        /\ (alloc = SharedPool /\ r.origin = "fresh") => made < MaxBlocks
        /\ pool' = r.M.pool
        /\ custom' = r.M.custom
        /\ hdr' = r.M.hdr
        /\ made' = IF alloc = SharedPool /\ r.origin = "fresh" THEN made + 1 ELSE made
        /\ held' = IF alloc = SharedPool
                   THEN held \cup {[p |-> r.ptr - HdrSize, n |-> size + HdrSize]}
                   ELSE held
        /\ frames' = frames \cup {[ptr |-> r.ptr, size |-> size, alloc |-> alloc,
                                   raw |-> r.ptr - HdrSize]}
        /\ UNCHANGED <<lastFreed, adopted>>
        /\ UNCHANGED notAlloc

\* The frame f is destroyed on thread t: operator delete(f.ptr, f.size).
AllocDelete(t, f) ==
    LET c == operator_delete(f.ptr, f.size)
        M == dealloc_call(AllocState, t, c)
    IN  /\ f \in frames
        /\ pool' = M.pool
        /\ custom' = M.custom
        /\ hdr' = M.hdr
        /\ held' = IF c.dealloc = "frame_pool" THEN {x \in held : x.p # c.p} ELSE held
        /\ frames' = frames \ {f}
        /\ UNCHANGED <<made, lastFreed, adopted>>
        /\ UNCHANGED notAlloc

\* The coroutines of the benchmark are created and destroyed on the one
\* thread that calls io_context::run.
MainThread == CHOOSE t \in Threads : \A u \in Threads : t <= u

\* The frame sizes of the coroutines: a small and a large frame.
FrameSizes == {1, MaxReq}

NextAlloc ==
    \/ \E a \in {SharedPool} \cup Customs, n \in FrameSizes : AllocNew(MainThread, a, n)
    \/ \E f \in frames : AllocDelete(MainThread, f)

SpecAlloc == Init /\ [][NextAlloc]_vars

-----------------------------------------------------------------------------
(* cb::op_cache, bench_cb.hpp:23-61: the one-slot cache of the calling     *)
(* thread.  c is the cache [ptr_, size_]; the general allocator is the set *)
(* H of its outstanding blocks.                                            *)

\* The addresses ::operator new can return for operation blocks.
OpAddrs == 1..MaxOps

\* ::operator delete(p); deleting a null pointer does nothing.
operator_delete_global(H, p) == {x \in H : x.p # p}

\* A faulty variant of op_cache::allocate: the recorded size is not looked at.
op_cache_allocate_any(c, H, n, fresh) ==
    IF c.ptr_ # NULL
    THEN [c |-> [c EXCEPT !.ptr_ = NULL], H |-> H, p |-> c.ptr_, src |-> "cache"]
    ELSE [c |-> c, H |-> H \cup {[p |-> fresh, cap |-> n]}, p |-> fresh, src |-> "new"]

\* A faulty variant of op_cache::allocate: a cached block that is too small
\* is released to the general allocator before the fresh one is made.
op_cache_allocate_evict(c, H, n, fresh) ==
    IF c.ptr_ # NULL /\ c.size_ >= n
    THEN [c |-> [c EXCEPT !.ptr_ = NULL], H |-> H, p |-> c.ptr_, src |-> "cache"]
    ELSE [c |-> [c EXCEPT !.ptr_ = NULL],
          H |-> operator_delete_global(H, c.ptr_) \cup {[p |-> fresh, cap |-> n]},
          p |-> fresh, src |-> "new"]

\* A faulty variant of op_cache::allocate: the cached block must be larger than n.
op_cache_allocate_strict(c, H, n, fresh) ==
    IF c.ptr_ # NULL /\ c.size_ > n
    THEN [c |-> [c EXCEPT !.ptr_ = NULL], H |-> H, p |-> c.ptr_, src |-> "cache"]
    ELSE [c |-> c, H |-> H \cup {[p |-> fresh, cap |-> n]}, p |-> fresh, src |-> "new"]

\* static void* op_cache::allocate(std::size_t n); fresh is the address
\* ::operator new(n) returns if it is called.
op_cache_allocate(c, H, n, fresh) ==
    IF c.ptr_ # NULL /\ c.size_ >= n
    THEN [c |-> [c EXCEPT !.ptr_ = NULL], H |-> H, p |-> c.ptr_, src |-> "cache"]
    ELSE [c |-> c, H |-> H \cup {[p |-> fresh, cap |-> n]}, p |-> fresh, src |-> "new"]

\* A faulty variant of op_cache::deallocate: a freed block of the recorded
\* size does not replace the cached one.
op_cache_deallocate_strict(c, H, p, n) ==
    IF c.ptr_ = NULL \/ n > c.size_
    THEN [c |-> [ptr_ |-> p, size_ |-> n], H |-> operator_delete_global(H, c.ptr_)]
    ELSE [c |-> c, H |-> operator_delete_global(H, p)]

\* static void op_cache::deallocate(void* p, std::size_t n).
op_cache_deallocate(c, H, p, n) ==
    IF c.ptr_ = NULL \/ n >= c.size_
    THEN [c |-> [ptr_ |-> p, size_ |-> n], H |-> operator_delete_global(H, c.ptr_)]
    ELSE [c |-> c, H |-> operator_delete_global(H, p)]

Cache == [ptr_ |-> ptr_, size_ |-> size_]

\* The ghost history keeps the last three calls.
Remember(h, e) ==
    LET a == Append(h, e)
    IN  IF Len(a) > 3 THEN Tail(a) ELSE a

\* op_cache::allocate(n), as io_op::operator new calls it.
CacheAllocate(n) ==
    \E fresh \in OpAddrs \ {x.p : x \in heap} :
        LET r == op_cache_allocate(Cache, heap, n, fresh) IN
        /\ ptr_' = r.c.ptr_
        /\ size_' = r.c.size_
        /\ heap' = r.H
        /\ opLive' = opLive \cup {[p |-> r.p, n |-> n]}
        /\ hist' = Remember(hist, [op |-> "allocate", p |-> r.p, n |-> n,
                                   src |-> r.src, pre |-> Cache])
        /\ UNCHANGED notCache

\* op_cache::deallocate(p, n), as io_op::operator delete calls it: with
\* a block allocate handed out and the size it was requested with.
CacheDeallocate(x) ==
    LET r == op_cache_deallocate(Cache, heap, x.p, x.n) IN
    /\ x \in opLive
    /\ ptr_' = r.c.ptr_
    /\ size_' = r.c.size_
    /\ heap' = r.H
    /\ opLive' = opLive \ {x}
    /\ hist' = Remember(hist, [op |-> "deallocate", p |-> x.p, n |-> x.n,
                               src |-> "none", pre |-> Cache])
    /\ UNCHANGED notCache

NextCache ==
    \/ \E n \in ReqSizes : CacheAllocate(n)
    \/ \E x \in opLive : CacheDeallocate(x)

SpecCache == Init /\ [][NextCache]_vars

-----------------------------------------------------------------------------
(* The callback operations, bench_cb.hpp:69-171, on the io_context and the *)
(* op_cache above.  An io_op lives in the block op_cache::allocate         *)
(* returned and is the work object of that address.  A handler is          *)
(* [op, rc, qc]: the caller's handler ("some"), a read_op with count_ rc   *)
(* around it ("read"), or a read_op around a request_op with count_ qc     *)
(* around it ("request").  C is the state: the queue, the cache, the       *)
(* handlers and the counters.                                              *)

\* read_op: if(count_++ < 10)
ReadSteps == 10
\* request_op: if(count_++ < 10)
RequestReads == 10

\* sizeof(io_op<Handler>): each wrapper adds an executor and a counter to
\* the handler it holds, so the three io_op types grow in this order.
OpSize(op) == CASE op = "some" -> 1 [] op = "read" -> 2 [] OTHER -> 3

\* async_io: ex.post(new op_t(ex, handler)).  fresh is the address
\* ::operator new returns if op_cache::allocate calls it; the constructor
\* sets next_ to null.
async_io(C, h, fresh) ==
    LET n == OpSize(h.op)
        r == op_cache_allocate(C.c, C.H, n, fresh)
        live == C.live \cup {[p |-> r.p, n |-> n]}
    IN  [C EXCEPT !.c = r.c,
                  !.H = r.H,
                  !.live = live,
                  !.handler[r.p] = h,
                  !.q = push([C.q EXCEPT !.next_[r.p] = NULL], r.p),
                  !.stats.posted = @ + 1,
                  !.stats.news = @ + (IF r.src = "new" THEN 1 ELSE 0),
                  !.stats.newsInRun = @ + (IF r.src = "new" /\ C.inRun THEN 1 ELSE 0),
                  !.stats.maxLive = IF Cardinality(live) > @ THEN Cardinality(live) ELSE @]

\* The caller's completion handler is invoked.
user_call(C) ==
    [C EXCEPT !.stats.completed = @ + 1,
              !.stats.at = [executed |-> C.stats.executed,
                            posted |-> C.stats.posted, inRun |-> C.inRun]]

RECURSIVE read_op_call(_, _, _)
RECURSIVE request_op_call(_, _, _)

\* read_op::operator()(): h is the read_op, *this.
read_op_call(C, h, fresh) ==
    IF h.rc < ReadSteps
    THEN async_io(C, [h EXCEPT !.rc = @ + 1], fresh)
    ELSE IF h.op = "read" THEN user_call(C)
    ELSE request_op_call(C, h, fresh)

\* request_op::operator()(): h is the request_op, *this; async_read makes a
\* read_op around it and calls it.
request_op_call(C, h, fresh) ==
    IF h.qc < RequestReads
    THEN read_op_call(C, [h EXCEPT !.qc = @ + 1, !.rc = 0], fresh)
    ELSE user_call(C)

\* The handler h is invoked.
invoke(C, h, fresh) ==
    IF h.op = "some" THEN user_call(C) ELSE read_op_call(C, h, fresh)

\* A faulty variant of io_op::operator(): the handler is dispatched before
\* the io_op is deleted.
io_op_call_late(C, p, fresh) ==
    LET h  == C.handler[p]
        n  == OpSize(h.op)
        d  == dispatch(C.q, h)
        C1 == IF d.invoked > 0 THEN invoke(C, h, fresh) ELSE C
        r  == op_cache_deallocate(C1.c, C1.H, p, n)
    IN  [C1 EXCEPT !.c = r.c, !.H = r.H, !.live = @ \ {[p |-> p, n |-> n]}]

\* A faulty variant of io_op::operator(): the handler is not dispatched.
io_op_call_silent(C, p, fresh) ==
    LET h  == C.handler[p]
        n  == OpSize(h.op)
        r  == op_cache_deallocate(C.c, C.H, p, n)
    IN  [C EXCEPT !.c = r.c, !.H = r.H, !.live = @ \ {[p |-> p, n |-> n]}]

\* void io_op::operator()(): auto h = std::move(handler_); auto ex = ex_;
\* delete this; ex.dispatch(std::move(h));
io_op_call(C, p, fresh) ==
    LET h  == C.handler[p]
        n  == OpSize(h.op)
        r  == op_cache_deallocate(C.c, C.H, p, n)
        C1 == [C EXCEPT !.c = r.c, !.H = r.H, !.live = @ \ {[p |-> p, n |-> n]}]
        d  == dispatch(C1.q, h)
    IN  IF d.invoked > 0 THEN invoke(C1, h, fresh) ELSE C1

\* async_read_some(ex, handler), async_read(ex, handler) and
\* async_request(ex, handler), called with the caller's handler.
async_start(C, op, fresh) ==
    IF op = "some" THEN async_io(C, [op |-> "some", rc |-> 0, qc |-> 0], fresh)
    ELSE IF op = "read" THEN read_op_call(C, [op |-> "read", rc |-> 0, qc |-> 0], fresh)
    ELSE request_op_call(C, [op |-> "request", rc |-> 0, qc |-> 0], fresh)

ChainState ==
    [q |-> q_, c |-> Cache, H |-> heap, live |-> opLive, handler |-> opHandler,
     stats |-> stats, inRun |-> inRun]

SetChainState(C) ==
    /\ q_' = C.q
    /\ ptr_' = C.c.ptr_
    /\ size_' = C.c.size_
    /\ heap' = C.H
    /\ opLive' = C.live
    /\ opHandler' = C.handler
    /\ stats' = C.stats

\* The addresses ::operator new can return now.
FreshOps == OpAddrs \ {x.p : x \in heap}

\* The caller starts an operation on the empty io_context, outside run():
\* op(sock, handler) of the benchmark loop.
ChainStart(op) ==
    /\ ~inRun
    /\ empty(q_)
    /\ runNo < MaxRuns
    /\ ioOp \in {"init", "return"}
    /\ \E fresh \in FreshOps :
          SetChainState(async_start(
              [ChainState EXCEPT !.stats = [op |-> op, posted |-> 0, executed |-> 0,
                                            completed |-> 0, news |-> 0,
                                            newsInRun |-> 0, maxLive |-> 0,
                                            at |-> [executed |-> 0, posted |-> 0,
                                                    inRun |-> FALSE]]],
              op, fresh))
    /\ ioOp' = "start"
    /\ UNCHANGED <<inRun, runNo, pushLog, popLog, lastPop, postedIn, execLog, hist>>
    /\ UNCHANGED notChain

\* One iteration of run(): the io_op at the head is popped and executed.
RunExecChain ==
    /\ inRun
    /\ ~empty(q_)
    /\ \E fresh \in FreshOps :
          LET r  == pop(q_)
              C1 == [ChainState EXCEPT !.q = r.q, !.stats.executed = @ + 1]
          IN  SetChainState(io_op_call(C1, r.ret, fresh))
    /\ ioOp' = "exec"
    /\ UNCHANGED <<inRun, runNo, pushLog, popLog, lastPop, postedIn, execLog, hist>>
    /\ UNCHANGED notChain

NextChain ==
    \/ \E op \in {"some", "read", "request"} : ChainStart(op)
    \/ RunEnter
    \/ RunExecChain
    \/ RunReturn

SpecChain == Init /\ [][NextChain]_vars

-----------------------------------------------------------------------------
\* The first n elements of s.
Prefix(s, n) == SubSeq(s, 1, n)

-----------------------------------------------------------------------------
\* C1: pop returns the pushed items in push order and null when nothing is
\* queued; empty() is true exactly when no pushed item is left to pop.
C1_Fifo ==
    /\ Len(popLog) <= Len(pushLog)
    /\ popLog = Prefix(pushLog, Len(popLog))
    /\ (lastPop.ret = NULL) = (lastPop.held = 0)
    /\ empty(q_) = (Len(pushLog) - Len(popLog) = 0)

\* Three items were pushed and popped, and one more pop returned null.
C1_Witness ==
    /\ Len(pushLog) = 3
    /\ Len(popLog) = 3
    /\ ioOp = "pop"
    /\ lastPop.ret = NULL

\* C2: every posted item is executed exactly once, in posting order, only
\* inside run(); an item posted by an executing item is executed in the
\* same run() call; when run() returns nothing posted is left.
C2_RunOrder ==
    /\ Len(execLog) <= Len(pushLog)
    /\ \A i \in 1..Len(execLog) :
          /\ execLog[i].w = pushLog[i]
          /\ execLog[i].inRun
          /\ postedIn[execLog[i].w] > 0 => execLog[i].run = postedIn[execLog[i].w]
    /\ ioOp = "return" => Len(execLog) = Len(pushLog)
    /\ ~inRun => (empty(q_) = (Len(execLog) = Len(pushLog)))

\* run() has returned after executing an item that was posted from inside
\* run() behind an item posted earlier.
C2_Witness ==
    /\ ioOp = "return"
    /\ Len(execLog) >= 3
    /\ \E i \in 2..Len(execLog) : postedIn[execLog[i].w] > 0

\* C3: a coroutine frame is destroyed at most once: by the self-destroy at
\* the final suspension point or by ~root_task, never by both.
C3_DestroyedAtMostOnce ==
    \A f \in Frames : Len(destroyLog[f]) <= 1

\* C4: when the owner is destroyed while the computation is still
\* suspended, exactly one deallocation of the frame occurs, ~root_task
\* performs it, and the frame is never resumed afterwards, also not by its
\* starter that was still queued.
C4_EarlyDestroy ==
    \A f \in Frames :
        (/\ destroyLog[f] # <<>>
         /\ destroyLog[f][1].by = "owner"
         /\ destroyLog[f][1].stmts < BodyLen)
        => /\ Len(destroyLog[f]) = 1
           /\ resumeLog[f] = <<>>

\* C5: a computation that runs to normal completion is deallocated exactly
\* once over the lifetime of the frame and its owner, at the final
\* suspension point after the body's last statement, and final_suspend
\* hands back the no-op token.
C5_CompletedOnce ==
    \A f \in Frames :
        (\E i \in 1..Len(resumeLog[f]) : resumeLog[f][i].live)
        => /\ Len(destroyLog[f]) = 1
           /\ destroyLog[f][1].by = "final"
           /\ destroyLog[f][1].stmts = BodyLen
           /\ token[f] = "noop"

\* C22: ~work_queue deletes no starter, which is storage of a coroutine
\* frame, and a frame whose starter was queued at teardown is still
\* released exactly once, through its own deallocation, by the time its
\* owner is gone.
C22_StarterNotDeleted ==
    /\ \A i \in 1..Len(deleted) : frame[deleted[i]].st = "none"
    /\ \A f \in Frames :
          (gone /\ owner[f] = "gone" /\ ~crashed) => Len(destroyLog[f]) = 1

\* The outstanding allocations of allocator a, as the frames tell them.
Owed(a) == {[p |-> f.raw, n |-> f.size + HdrSize] : f \in {g \in frames : g.alloc = a}}

\* The bookkeeping of the allocators agrees with the live frames: each
\* allocation is owed by the allocator that made it, under the pointer and
\* the size it was made with, and the header before each frame names it.
AllocsAgree ==
    /\ \A a \in Customs : custom[a] = Owed(a)
    /\ held = Owed(SharedPool)
    /\ \A f \in frames :
          /\ f.ptr = f.raw + HdrSize
          /\ ReadHdr(hdr, f.raw) = [dealloc |-> f.alloc.kind, ctx |-> f.alloc]

\* C6: a frame of size s from allocator A is released by one call
\* A.deallocate(raw, s + sizeof(header)) with the pointer A.allocate
\* returned, never to another allocator: the call operator delete makes
\* for a live frame is exactly that call, and after it every allocator
\* still owes exactly the frames it served that are live.
C6_SameAllocator ==
    [][\A f \in frames :
          AllocDelete(MainThread, f)
          => /\ operator_delete(f.ptr, f.size)
                  = [dealloc |-> f.alloc.kind, ctx |-> f.alloc,
                     p |-> f.raw, n |-> f.size + HdrSize]
             /\ AllocsAgree']_vars

\* A frame of a caller-supplied allocator has been freed (its header is
\* still in memory, at an address no live frame has) while a frame of the
\* shared pool and a frame of the other caller-supplied allocator are live.
C6_Witness ==
    /\ \E a \in DOMAIN hdr :
          /\ \A f \in frames : f.raw # a
          /\ hdr[a].ctx \in Customs
          /\ \E f \in frames : f.alloc \in Customs \ {hdr[a].ctx}
    /\ \E f \in frames : f.alloc = SharedPool
    /\ AllocsAgree

\* The last call of op_cache.
LastOp == hist[Len(hist)]

\* The last three calls were deallocate with n1, deallocate with n2 >= n1
\* and allocate(n1).
FreedTwiceThenAsked ==
    /\ Len(hist) = 3
    /\ hist[1].op = "deallocate"
    /\ hist[2].op = "deallocate"
    /\ hist[3].op = "allocate"
    /\ hist[1].n <= hist[2].n
    /\ hist[3].n = hist[1].n

\* allocate(n) with a block cached whose recorded capacity is >= n returns
\* that block without the general allocator and leaves the slot empty; no
\* block is handed out twice, and the cached block is handed out to nobody.
CacheHit ==
    /\ (Len(hist) > 0 /\ LastOp.op = "allocate"
          /\ LastOp.pre.ptr_ # NULL /\ LastOp.pre.size_ >= LastOp.n)
       => /\ LastOp.p = LastOp.pre.ptr_
          /\ LastOp.src = "cache"
          /\ ptr_ = NULL
    /\ Cardinality({x.p : x \in opLive}) = Cardinality(opLive)
    /\ ptr_ # NULL => ptr_ \notin {x.p : x \in opLive}

\* C10 as stated: a cache hit returns the cached block and empties the
\* slot, and after deallocate with n1, deallocate with n2 >= n1, the
\* request allocate(n1) is served by the block that was freed with n2.
C10_ServedByLastFreed ==
    /\ CacheHit
    /\ FreedTwiceThenAsked => hist[3].p = hist[2].p

\* C10, amended: a cache hit returns the cached block and empties the
\* slot, and after deallocate with n1, deallocate with n2 >= n1, the
\* request allocate(n1) is served from the cache without the general
\* allocator: by the block freed with n2 unless the slot held, before the
\* two deallocations, a block of recorded capacity above n2, and then by
\* that block.
C10_ServedFromCache ==
    /\ CacheHit
    /\ FreedTwiceThenAsked
       => /\ hist[3].src = "cache"
          /\ hist[3].p = IF hist[1].pre.ptr_ # NULL /\ hist[1].pre.size_ > hist[2].n
                         THEN hist[1].pre.ptr_
                         ELSE hist[2].p

\* Both cases have happened: the request after the two deallocations was
\* served by the block freed with n2 = n1, the slot having held a smaller
\* block before.
C10_Witness ==
    /\ FreedTwiceThenAsked
    /\ hist[1].n = hist[2].n
    /\ hist[1].pre.ptr_ # NULL
    /\ hist[1].pre.size_ < hist[1].n
    /\ hist[3].p = hist[2].p
    /\ ptr_ = NULL

\* The last call was allocate(n) with a block cached whose recorded
\* capacity is below n.
MissedWithCached ==
    /\ Len(hist) > 0
    /\ LastOp.op = "allocate"
    /\ LastOp.pre.ptr_ # NULL
    /\ LastOp.pre.size_ < LastOp.n

\* C11 as stated: allocate(n) with a cached block of recorded capacity
\* below n releases the cached block to the general allocator and returns
\* a fresh block, and the slot is empty after the call.
C11_MissEvicts ==
    MissedWithCached
    => /\ LastOp.src = "new"
       /\ ptr_ = NULL
       /\ LastOp.pre.ptr_ \notin {x.p : x \in heap}

\* C11, amended: allocate(n) with a cached block of recorded capacity
\* below n returns a fresh block of capacity n from the general allocator
\* and leaves the slot as it was: the same block stays cached with the same
\* recorded capacity and is not released.
C11_MissKeepsSlot ==
    MissedWithCached
    => /\ LastOp.src = "new"
       /\ LastOp.p # LastOp.pre.ptr_
       /\ [p |-> LastOp.p, cap |-> LastOp.n] \in heap
       /\ ptr_ = LastOp.pre.ptr_
       /\ size_ = LastOp.pre.size_
       /\ LastOp.pre.ptr_ \in {x.p : x \in heap}

\* allocate(n) has just missed a cached block that is too small, and the
\* block is still cached.
C11_Witness ==
    /\ MissedWithCached
    /\ ptr_ # NULL
    /\ size_ < LastOp.n

\* The capacity the outstanding block at p was allocated with.
CapOf(p) == (CHOOSE h \in heap : h.p = p).cap

\* What deallocate(x.p, x.n) must do when it keeps `keep` of the freed and
\* the cached block: `keep` is in the slot, the other block, if there is
\* one, was outstanding and is released, and no other block is.
Keeps(x, keep) ==
    LET other == IF keep = x.p THEN ptr_ ELSE x.p IN
    /\ ptr_' = keep
    /\ other # NULL => other \in {h.p : h \in heap}
    /\ heap' = {h \in heap : h.p # other}

\* C12 as stated: after deallocate(p, n) the slot holds the larger of the
\* cached block and p by the capacity each was allocated with (p when the
\* slot was empty or p is at least as large), and the other block is
\* released once.
C12_KeepsLargerCapacity ==
    [][\A x \in opLive :
          CacheDeallocate(x)
          => Keeps(x, IF ptr_ = NULL \/ CapOf(x.p) >= CapOf(ptr_) THEN x.p ELSE ptr_)]_vars

\* C12, amended: after deallocate(p, n) the slot holds the larger of the
\* cached block and p by the sizes the cache knows, n for p and the
\* recorded size for the cached block (p, recorded with n, when the slot
\* was empty or n is at least the recorded size; otherwise the cached
\* block with its recorded size), and the other block is released once.
C12_KeepsLargerRecorded ==
    [][\A x \in opLive :
          CacheDeallocate(x)
          => IF ptr_ = NULL \/ x.n >= size_
             THEN Keeps(x, x.p) /\ size_' = x.n
             ELSE Keeps(x, ptr_) /\ size_' = size_]_vars

\* A block of larger capacity, reused for a smaller request, has just been
\* freed into an occupied slot: it is cached under the smaller size and
\* the block cached before is released.
C12_Witness ==
    /\ Len(hist) > 0
    /\ LastOp.op = "deallocate"
    /\ LastOp.pre.ptr_ # NULL
    /\ ptr_ = LastOp.p
    /\ LastOp.pre.ptr_ # ptr_
    /\ LastOp.pre.ptr_ \notin {h.p : h \in heap}
    /\ CapOf(ptr_) > size_

\* C13: with every block deallocated with the size it was requested with,
\* the recorded size of the cached block never exceeds the capacity the
\* block was allocated with, is at least the size the block was freed with
\* and stays what it is while the block stays cached; every block that
\* allocate(n) handed out is outstanding and has capacity >= n.
C13_RecordedWithinCapacity ==
    [][/\ ptr_' # NULL
          => /\ ptr_' \in {h.p : h \in heap'}
             /\ size_' <= CapOf(ptr_)'
       /\ \A x \in opLive : (CacheDeallocate(x) /\ ptr_' = x.p) => size_' >= x.n
       /\ (ptr_ # NULL /\ ptr_' = ptr_) => size_' = size_
       /\ \A x \in opLive' :
             /\ x.p \in {h.p : h \in heap'}
             /\ CapOf(x.p)' >= x.n]_vars

\* The cached block is recorded with less than its capacity while a block
\* of larger capacity than its request is handed out.
C13_Witness ==
    /\ ptr_ # NULL
    /\ size_ < CapOf(ptr_)
    /\ \E x \in opLive : CapOf(x.p) > x.n
    /\ Len(hist) > 0
    /\ LastOp.op = "deallocate"

\* The position in execLog of the execution of item w, 0 if there is none.
ExecIndex(w) ==
    IF \E i \in 1..Len(execLog) : execLog[i].w = w
    THEN CHOOSE i \in 1..Len(execLog) : execLog[i].w = w
    ELSE 0

\* C14: dispatch never enqueues: the queue is the same before and after
\* it; given a coroutine handle it returns that handle and invokes nothing;
\* given an invocable it invokes it exactly once before it returns, so the
\* items that were queued at that moment are executed only afterwards.
C14_DispatchInline ==
    \A k \in 1..Len(dispatchLog) :
        LET d == dispatchLog[k] IN
        /\ d.qAfter = d.qBefore
        /\ d.kind = "coro" => (d.ret = d.arg /\ d.invoked = 0)
        /\ d.kind = "invocable"
           => /\ d.invoked = 1
              /\ \A i \in 1..Len(d.queued) :
                    ExecIndex(d.queued[i]) = 0 \/ ExecIndex(d.queued[i]) > d.at

\* An invocable was dispatched by a running item while other items were
\* queued, a coroutine handle was dispatched too, and run() has since
\* executed the items that were queued and returned.
C14_Witness ==
    /\ ioOp = "return"
    /\ \E k \in 1..Len(dispatchLog) :
          /\ dispatchLog[k].kind = "invocable"
          /\ Len(dispatchLog[k].queued) >= 2
          /\ \A i \in 1..Len(dispatchLog[k].queued) :
                ExecIndex(dispatchLog[k].queued[i]) > dispatchLog[k].at
    /\ \E k \in 1..Len(dispatchLog) : dispatchLog[k].kind = "coro"

\* The items reached from head_ along next_, up to a null link.
Reachable == destroy_queue(q_.next_, q_.head_, MaxWork + 1)

\* C15: the items that are queued when the work_queue is destroyed are
\* each deleted once by the destructor, no other item is, and none of them
\* is executed.
C15_TeardownDeletesQueued ==
    gone => /\ Len(deleted) = Len(linked)
            /\ \A i \in 1..Len(linked) :
                  Cardinality({j \in 1..Len(deleted) : deleted[j] = linked[i]}) = 1
            /\ \A i \in 1..Len(execLog) :
                  \A j \in 1..Len(linked) : execLog[i].w # linked[j]

\* C18: after any pushes and pops, also of items pushed again, head is
\* null iff tail is null iff nothing is queued, and the items reached from
\* head are the pushed-but-not-popped items, each once.
C18_LinksAreQueue ==
    ~gone => /\ (q_.head_ = NULL) = (q_.tail_ = NULL)
             /\ (q_.head_ = NULL) = (linked = <<>>)
             /\ Reachable = linked

\* The number of io_ops the operation op posts.
Steps(op) ==
    CASE op = "some" -> 1
      [] op = "read" -> ReadSteps
      [] OTHER -> RequestReads * ReadSteps

\* C16: started on an empty io_context and followed by run(),
\* async_read_some posts 1 io_op, async_read 10 and async_request 100;
\* run() executes as many items as were posted; the caller's handler is
\* invoked once, inside run(), after the last io_op has executed.
C16_ChainCounts ==
    /\ stats.posted <= Steps(stats.op)
    /\ stats.executed <= stats.posted
    /\ stats.completed <= 1
    /\ stats.completed = 1
       => /\ stats.at.inRun
          /\ stats.at.executed = Steps(stats.op)
          /\ stats.at.posted = Steps(stats.op)
    /\ (ioOp = "return" /\ stats.op # "none")
       => /\ stats.posted = Steps(stats.op)
          /\ stats.executed = stats.posted
          /\ stats.completed = 1

\* run() has returned from an async_request whose 100 io_ops were posted
\* and executed and whose handler was invoked after the last of them.
C16_Witness ==
    /\ ioOp = "return"
    /\ stats.op = "request"
    /\ stats.posted = 100
    /\ stats.executed = 100
    /\ stats.completed = 1
    /\ stats.at.executed = 100

\* C20: io_op::operator() gives its block back to op_cache before it
\* dispatches the handler: in a serial chain at most one io_op block is
\* handed out at any time, every async_io started from a handler of the
\* chain is served from the cache, and the chain makes at most one general
\* allocation.
C20_ChainReusesBlock ==
    /\ Cardinality(opLive) <= 1
    /\ stats.maxLive <= 1
    /\ stats.newsInRun = 0
    /\ stats.news <= 1

\* run() has returned from a chain of 100 io_ops that made one general
\* allocation, for its first io_op; the block is back in the cache.
C20_Witness ==
    /\ ioOp = "return"
    /\ stats.posted = 100
    /\ stats.executed = 100
    /\ stats.news = 1
    /\ opLive = {}
    /\ ptr_ # NULL
    /\ size_ = OpSize("request")

\* C19: run() tests empty() again after every executed item; with items
\* that post finitely many further items it returns, the queue is empty
\* when it does, and it returns as soon as it finds the queue empty,
\* without waiting for posts.
C19_RunReturns ==
    /\ [](ioOp = "return" => empty(q_))
    /\ []((inRun /\ empty(q_)) => ENABLED RunReturn)
    /\ (inRun ~> ~inRun)

\* run() has returned with the queue empty after it executed every work
\* object there is, the last ones posted by items it executed.
C19_Witness ==
    /\ ioOp = "return"
    /\ ~inRun
    /\ empty(q_)
    /\ Len(execLog) = MaxWork
    /\ postedIn[execLog[MaxWork].w] > 0

\* The number of times x occurs in sequence s.
RECURSIVE Occurs(_, _)
Occurs(s, x) ==
    IF s = <<>> THEN 0
    ELSE (IF Head(s) = x THEN 1 ELSE 0) + Occurs(Tail(s), x)

\* The places block b is in: the free lists that hold it, once for every
\* time it is linked, and its holders.
RECURSIVE ListedIn(_, _)
ListedIn(S, b) ==
    IF S = {} THEN 0
    ELSE LET t == CHOOSE u \in S : TRUE
         IN  Occurs(ListOf(pool.mem, pool.local[t], MaxBlocks + 1), b) + ListedIn(S \ {t}, b)

Places(b) ==
    flight[b] + ListedIn(Threads, b) + Occurs(ListOf(pool.mem, pool.global, MaxBlocks + 1), b)

Blocks == {k * PoolStride : k \in 1..made}

\* C21: under every interleaving of the steps of allocate and deallocate
\* on several threads, a block is in flight with one holder or is once in
\* one free list, and allocate returns no block that is in flight.
C21_OneOwner ==
    /\ [](\A b \in Blocks : Places(b) = 1)
    /\ [][\A b \in PoolAddrs : flight'[b] > flight[b] => flight[b] = 0]_vars

\* Two threads are inside calls at once: one has missed its local list
\* and is about to scan the global list, which holds a block, the other is
\* about to push a block it frees that a third thread, or the first,
\* allocated from its own list.
C21_Witness ==
    /\ \E t, u \in Threads :
          /\ tpc[t].pc = "global"
          /\ tpc[u].pc = "push"
          /\ pool.local[u] = NULL
    /\ pool.global # NULL
    /\ made = MaxBlocks

\* C17: over any number of runs on one thread, each freeing all its
\* frames before the next starts, the blocks of the pool, and so the local
\* free list, stay within a constant, and from some run on no fresh block
\* is made.
C17_PoolBounded ==
    /\ [](made <= RunBlocks /\ Len(RunList) <= RunBlocks)
    /\ \E k \in 0..RunBlocks : <>[](made = k)

\* The pool has grown to the constant, all blocks are in the local list,
\* and the run that just ended allocated frames without a fresh block.
C17_Witness ==
    /\ runStat.quiet
    /\ runStat.allocs = 0
    /\ made = RunBlocks
    /\ held = {}
    /\ Len(RunList) = RunBlocks

\* The elements of sequence S.
Range(S) == {S[i] : i \in 1..Len(S)}

\* S without b.
Without(S, b) == SelectSeq(S, LAMBDA x : x # b)

\* The first block of the list S that holds a request of n bytes, or NULL.
FirstFit(mem, S, n) ==
    LET I == {i \in 1..Len(S) : mem[S[i]].size >= n + BlockHdr}
    IN  IF I = {} THEN NULL ELSE S[CHOOSE i \in I : \A j \in I : i <= j]

\* What C7 says of one allocate(n) by thread t.
C7_Post(t, n) ==
    LET L   == LocalList(pool, t)
        G   == GlobalList(pool)
        fl  == FirstFit(pool.mem, L, n)
        fg  == FirstFit(pool.mem, G, n)
        got == held' \ held
    IN  /\ Cardinality(got) = 1
        /\ LET b == (CHOOSE x \in got : TRUE).p - BlockHdr
           IN  /\ b \in PoolAddrs
               /\ IF fl # NULL
                  THEN /\ b = fl
                       /\ LocalList(pool', t) = Without(L, b)
                       /\ GlobalList(pool') = G
                  ELSE IF fg # NULL
                  THEN /\ b = fg
                       /\ GlobalList(pool') = Without(G, b)
                       /\ LocalList(pool', t) = L
                  ELSE /\ pool.mem[b].size = 0
                       /\ pool'.mem[b].size = n + BlockHdr
                       /\ LocalList(pool', t) = L
                       /\ GlobalList(pool') = G
               /\ pool'.mem[b].size >= n + BlockHdr
               /\ \A u \in Threads : b \notin Range(LocalList(pool', u))
               /\ b \notin Range(GlobalList(pool'))

\* C7: allocate(n) returns the first block of the caller's local list
\* whose recorded size is >= n + sizeof(block), else the first such block
\* of the global list, else a fresh block of exactly n + sizeof(block);
\* the block is removed from its list and is large enough.
C7_FirstFit ==
    [][\A t \in Threads, n \in ReqSizes : PoolAllocate(t, n) => C7_Post(t, n)]_vars

\* A block taken from the global list is in flight while the local list
\* of some thread holds only blocks too small for that request.
C7_Witness ==
    \E x \in held, t \in Threads :
        /\ x.p - BlockHdr \in adopted
        /\ LocalList(pool, t) # <<>>
        /\ \A b \in Range(LocalList(pool, t)) : pool.mem[b].size < x.n + BlockHdr

\* C8: after thread t has freed a block that was allocated for n bytes,
\* its next allocate(m) with m <= n returns a pooled block and does not
\* call the general allocator.
C8_Reuse ==
    [][\A t \in Threads, m \in ReqSizes :
          (PoolAllocate(t, m) /\ lastFreed.t = t /\ m <= lastFreed.n)
          => /\ made' = made
             /\ \A x \in held' \ held :
                   x.p - BlockHdr \in Range(LocalList(pool, t)) \cup Range(GlobalList(pool))]_vars

\* A block is in flight for a request smaller than the one it was made for.
C8_Witness ==
    \E x \in held : pool.mem[x.p - BlockHdr].size > x.n + BlockHdr

\* C9: deallocate puts the block at the head of the caller's local list
\* and never on the global list; no allocate or deallocate adds a block to
\* the global list, and a block taken from it is never in it again.
C9_OneWay ==
    [][/\ \A t \in Threads : \A x \in held :
             PoolDeallocate(t, x)
             => /\ pool'.local[t] = x.p - BlockHdr
                /\ GlobalList(pool') = GlobalList(pool)
       /\ \A t \in Threads, n \in ReqSizes :
             PoolAllocate(t, n)
             => Range(GlobalList(pool')) \subseteq Range(GlobalList(pool))
       /\ adopted' \cap Range(GlobalList(pool')) = {}]_vars

\* A block that came from the global list was freed and lies in a local
\* list, while the global list still holds another block.
C9_Witness ==
    /\ \E b \in adopted, t \in Threads : b \in Range(LocalList(pool, t))
    /\ GlobalList(pool) # <<>>

====
